---- MODULE Spec2Model ----
(***************************************************************************)
(* fs-gdrive: a path-addressed API (readdir, mkdir, writeFile, unlink,     *)
(* rename, copy, stat, ...) over Google Drive, with an in-memory mirror    *)
(* tree of Node objects (src/src/classes/node.ts) owned by the GDrive      *)
(* client (src/src/classes/gdrive.ts).                                     *)
(*                                                                         *)
(* The model keeps                                                         *)
(*   - the remote store: a map from file id to its metadata,               *)
(*   - the client: #drive, #rootNode, #lastConnect and the heap of Node    *)
(*     objects (object identity matters: the same object may be pushed     *)
(*     into a child array twice).                                          *)
(* A path is kept as the array String.prototype.split('/') returns for it, *)
(* so '/a/b' is <<"", "a", "b">>, '/' is <<"", "">>, '/a/' is              *)
(* <<"", "a", "">>.                                                        *)
(*                                                                         *)
(* A call of the public API is an operator from the state it starts in to  *)
(* its outcome (the state it leaves, what it returns or throws, the remote *)
(* calls it issued); an action commits the state a call leaves. What a     *)
(* call returns is read off its outcome: a property of a call is stated    *)
(* for every call that can be made in a reachable state.                   *)
(***************************************************************************)
EXTENDS Integers, Sequences, FiniteSets, TLC

VARIABLES
    remote,       \* the store: [id -> [name, dir, parent, size]]
    nextId,       \* the id the store gives to the next created entry
    authOk,       \* #options.auth has an email and a private key
    drive,        \* #drive !== null
    rootNode,     \* #rootNode: a Node reference, or Null
    lastConnect,  \* #lastConnect: a time, or NoTime
    now,          \* the clock new Date() reads
    heap,         \* the Node objects: [ref -> Node]
    strict,       \* the store refuses a move that would close a cycle of folders
    tasks         \* the calls in progress that are suspended at an await

vars == <<remote, nextId, authOk, drive, rootNode, lastConnect, now, heap, strict, tasks>>

----------------------------------------------------------------------------
(* Bounds *)

MaxIds == 2        \* entries the store can create in one behaviour
MaxNodes == 5      \* Node objects alive at once
MaxKids == 2       \* length of a child array
MaxDepth == 2      \* segments of a path given to the API
MaxFail == 2       \* remote calls of one API call, of which one may be made to fail

Names == {"a", "b"}
Sizes == {10}

RootId == 0
NoId == -1
Null == 0
NoTime == -1
Refs == 1..MaxNodes

----------------------------------------------------------------------------
(* Paths, as arrays of segments *)

RootPath == <<"", "">>

\* '/', '/a', '/b', '/a/b', ... : every name at the top, one name below it
Below(n) == [i \in 1..n |-> IF i % 2 = 1 THEN "a" ELSE "b"]
PlainPaths ==
    {<<"", x>> : x \in Names} \cup {<<"">> \o Below(n) : n \in 2..MaxDepth}
Paths == PlainPaths \cup {RootPath}
\* '/a/': a path with a trailing slash
SlashPaths == {<<"", "a", "">>}

Front(s) == SubSeq(s, 1, Len(s) - 1)
Last(s) == s[Len(s)]

\* path.split('/').slice(0, -1).join('/') || '/'
ParentPath(path) ==
    IF Front(path) \in {<<>>, <<"">>} THEN RootPath ELSE Front(path)

\* path.split('/').pop()!
LeafName(path) == Last(path)

\* path.split('/').filter(Boolean)
Parts(path) == SelectSeq(path, LAMBDA s : s # "")

----------------------------------------------------------------------------
(* The remote store *)

Entry(id, r) == [id |-> id, name |-> r[id].name, dir |-> r[id].dir, size |-> r[id].size]

RECURSIVE SortIds(_, _)
SortIds(S, ord) ==
    IF S = {} THEN <<>>
    ELSE LET x == IF ord = "asc"
                  THEN CHOOSE y \in S : \A z \in S : y <= z
                  ELSE CHOOSE y \in S : \A z \in S : y >= z
         IN  <<x>> \o SortIds(S \ {x}, ord)

\* files.list q: '<pid>' in parents and trashed = false
ListAll(r, pid, ord) ==
    SortIds({i \in DOMAIN r : r[i].parent = pid}, ord)

\* files.list q: '<pid>' in parents and name = '<name>' and trashed = false
ListByName(r, pid, name, ord) ==
    SortIds({i \in DOMAIN r : r[i].parent = pid /\ r[i].name = name}, ord)

\* files.delete takes a folder's descendants along
RECURSIVE Doomed(_, _)
Doomed(r, S) ==
    LET more == {i \in DOMAIN r \ S : r[i].parent \in S}
    IN  IF more = {} THEN S ELSE Doomed(r, S \cup more)

\* C6 mutant: the delete call leaves the store as it was
RemoteDeleteKept(r, id) == r

RemoteDelete(r, id) ==
    LET gone == Doomed(r, {id})
    IN  [i \in DOMAIN r \ gone |-> r[i]]

RemoteCreate(r, id, name, dir, pid, size) ==
    [i \in DOMAIN r \cup {id} |->
        IF i = id THEN [name |-> name, dir |-> dir, parent |-> pid, size |-> size]
        ELSE r[i]]

\* The order of a listing is the store's choice; it shows only when two
\* entries share a folder.
Orders ==
    IF \E i, j \in DOMAIN remote : i # j /\ remote[i].parent = remote[j].parent
    THEN {"asc", "desc"} ELSE {"asc"}

----------------------------------------------------------------------------
(* Node (src/src/classes/node.ts) *)

NewNode(id, name, dir, size) ==
    [id |-> id, name |-> name, dir |-> dir, size |-> size,
     hasChildren |-> FALSE, children |-> <<>>, parent |-> Null]

NodeOf(e) == NewNode(e.id, e.name, e.dir, e.size)

\* C13 mutant: every node passes for a folder
isAlwaysDirectory(h, n) == TRUE

isDirectory(h, n) == h[n].dir
isFile(h, n) == ~isDirectory(h, n)

\* the smallest free reference
FreeRef(h) == CHOOSE x \in Refs \ DOMAIN h : \A y \in Refs \ DOMAIN h : x <= y
HasRoom(h) == Refs \ DOMAIN h # {}

Place(h, ref, node) ==
    [x \in DOMAIN h \cup {ref} |-> IF x = ref THEN node ELSE h[x]]

\* C10 mutant: addChild without its isDirectory guard
addChildAnywhere(h, n, child) ==
    LET h1 == [h EXCEPT ![n].hasChildren = TRUE, ![n].children = Append(@, child)]
    IN  [h1 EXCEPT ![child].parent = n]

\* C22 mutant: the moved node is replaced by a node built anew, as the
\* update branch of writeFile does
addChildAnew(h, n, child) ==
    IF ~isDirectory(h, n) THEN h
    ELSE LET h1 == [h EXCEPT ![n].hasChildren = TRUE,
                             ![n].children = Append(@, child)]
         IN  [h1 EXCEPT ![child].parent = n, ![child].children = <<>>,
                        ![child].hasChildren = FALSE]

addChild(h, n, child) ==
    IF ~isDirectory(h, n) THEN h
    ELSE LET h1 == [h EXCEPT ![n].hasChildren = TRUE,
                             ![n].children = Append(@, child)]
         IN  [h1 EXCEPT ![child].parent = n]

\* children.findIndex(child => child.id === childId), 0 when there is none
IndexOfId(h, n, childId) ==
    LET hits == {i \in 1..Len(h[n].children) : h[h[n].children[i]].id = childId}
    IN  IF hits = {} THEN 0 ELSE CHOOSE i \in hits : \A j \in hits : i <= j

Splice(s, i) == SubSeq(s, 1, i - 1) \o SubSeq(s, i + 1, Len(s))

removeChild(h, n, childId) ==
    IF ~h[n].hasChildren THEN h
    ELSE LET i == IndexOfId(h, n, childId)
         IN  IF i = 0 THEN h ELSE [h EXCEPT ![n].children = Splice(@, i)]

\* C11 mutant: the cached children are never consulted
FindNothing(h, n, part) == Null

\* children?.find(child => child.name === part), Null when there is none
FindByName(h, n, part) ==
    LET hits == {i \in 1..Len(h[n].children) : h[h[n].children[i]].name = part}
    IN  IF hits = {} THEN Null
        ELSE h[n].children[CHOOSE i \in hits : \A j \in hits : i <= j]

\* Node.getPath: the names from the topmost ancestor down to n, joined by
\* '/' behind a leading '/'; as the segments path.split('/') gives back.
\* The loop does not end on a cyclic tree: fuel bounds it.
RECURSIVE NamesDown(_, _, _)
NamesDown(h, n, fuel) ==
    IF h[n].parent = Null \/ fuel = 0 THEN <<h[n].name>>
    ELSE Append(NamesDown(h, h[n].parent, fuel - 1), h[n].name)

getPath(h, n) == <<"">> \o NamesDown(h, n, Cardinality(DOMAIN h))

----------------------------------------------------------------------------
(* A call in progress: the state it works on, the remote calls it has      *)
(* issued, and the error it has thrown.                                    *)

Begin(failAt, ord) ==
    [remote |-> remote, nextId |-> nextId, heap |-> heap, drive |-> drive,
     rootNode |-> rootNode, lastConnect |-> lastConnect,
     calls |-> <<>>, failAt |-> failAt, ord |-> ord, strict |-> strict,
     err |-> "", errArg |-> <<>>, full |-> FALSE]

Failed(c) == c.err # ""
Throw(c, kind, arg) == [c EXCEPT !.err = kind, !.errArg = arg]

\* the next remote call is the one that fails
NextFails(c) == Len(c.calls) + 1 = c.failAt
\* C20 mutant: every remote call is sent twice
IssueTwice(c, tag) == [c EXCEPT !.calls = Append(Append(@, tag), tag)]

Issue(c, tag) == [c EXCEPT !.calls = Append(@, tag)]
\* C26 mutant: a remote call that fails takes the root's cached children
\* along
RemoteErrorResets(c, tag) ==
    Throw(Issue([c EXCEPT !.heap[c.rootNode].children = <<>>], tag),
          "RemoteFailure", <<tag>>)

RemoteError(c, tag) == Throw(Issue(c, tag), "RemoteFailure", <<tag>>)

\* new Node(...): the call stops (and the action is disabled) when no
\* reference is left
OutOfRefs(c) == [c EXCEPT !.full = TRUE, !.err = "OutOfRefs"]

----------------------------------------------------------------------------
(* GDrive.#resolvePath *)

\* C2 mutant: the node built after a miss is not attached to the folder
CacheMissLost(h, cur, ref) == h

\* currentNode.addChild(newNode)
CacheMiss(h, cur, ref) == addChild(h, cur, ref)

RECURSIVE Walk(_, _, _, _)
Walk(c, cur, parts, path) ==
    IF parts = <<>> THEN [c |-> c, node |-> cur]
    ELSE IF ~isDirectory(c.heap, cur)
    THEN [c |-> Throw(c, "NotADirectory", <<c.heap[cur].name>>), node |-> Null]
    ELSE
      LET part == Head(parts)
          childNode == FindByName(c.heap, cur, part)
      IN  IF childNode # Null THEN Walk(c, childNode, Tail(parts), path)
          ELSE IF NextFails(c) THEN [c |-> RemoteError(c, "query"), node |-> Null]
          ELSE
            LET c1 == Issue(c, "query")
                files == ListByName(c.remote, c.heap[cur].id, part, c.ord)
            IN  IF files = <<>>
                THEN [c |-> Throw(c1, "PathNotFound", path), node |-> Null]
                ELSE IF ~HasRoom(c1.heap) THEN [c |-> OutOfRefs(c1), node |-> Null]
                ELSE
                  LET ref == FreeRef(c1.heap)
                      h1 == Place(c1.heap, ref, NodeOf(Entry(files[1], c.remote)))
                      c2 == [c1 EXCEPT !.heap = CacheMiss(h1, cur, ref)]
                  IN  Walk(c2, ref, Tail(parts), path)

resolvePath(c, path) ==
    IF c.rootNode = Null THEN [c |-> Throw(c, "NotInitialized", <<>>), node |-> Null]
    ELSE IF path = RootPath THEN [c |-> c, node |-> c.rootNode]
    ELSE Walk(c, c.rootNode, Parts(path), path)

----------------------------------------------------------------------------
(* GDrive.connect, GDrive.autoConnect *)

\* 3 hours, in milliseconds
CONNECTION_TIMEOUT == 3 * 60 * 60 * 1000

\* C28 mutant: the root node is kept once there is one
SetRootIfUnset(c, ref) == IF c.rootNode = Null THEN [c EXCEPT !.rootNode = ref] ELSE c

\* this.#rootNode = new Node(...)
SetRoot(c, ref) == [c EXCEPT !.rootNode = ref]

connect(c) ==
    IF ~authOk THEN Throw(c, "InvalidCredentials", <<>>)
    ELSE
      LET c1 == [c EXCEPT !.drive = TRUE, !.lastConnect = now]
      IN  IF NextFails(c1) \/ RootId \notin DOMAIN c1.remote
          THEN Throw(Issue(c1, "get"), "ConnectFailed", <<"RemoteFailure">>)
          ELSE IF c1.remote[RootId].name = ""
          THEN Throw(Issue(c1, "get"), "ConnectFailed", <<"InvalidRootData">>)
          ELSE IF ~HasRoom(c1.heap) THEN OutOfRefs(c1)
          ELSE
            LET c2 == Issue(c1, "get")
                ref == FreeRef(c2.heap)
            IN  SetRoot([c2 EXCEPT !.heap = Place(@, ref, NodeOf(Entry(RootId, c2.remote)))],
                        ref)

\* C18 mutant: the reconnect is due as soon as the threshold is reached
autoConnectAtThreshold(c) ==
    IF ~c.drive \/ (c.lastConnect # NoTime /\ now - c.lastConnect >= CONNECTION_TIMEOUT)
    THEN connect(c)
    ELSE c

autoConnect(c) ==
    IF ~c.drive \/ (c.lastConnect # NoTime /\ now - c.lastConnect > CONNECTION_TIMEOUT)
    THEN connect(c)
    ELSE c

----------------------------------------------------------------------------
(* The outcome of a call of the public API *)

Out(c, node, ret, id, wraps) ==
    [c |-> c, node |-> node, ret |-> ret, id |-> id, wraps |-> wraps, size |-> -1]

\* an error thrown by autoConnect leaves the call before its try block
Unconnected(c) ==
    Out(c, Null, <<>>, NoId,
        IF c.err = "ConnectFailed" THEN <<"Failed to connect to Google Drive">> ELSE <<>>)

\* catch (error) { throw new Error(`Failed to ...: ${error.message}`) }
Caught(c, what) == Out(c, Null, <<>>, NoId, <<what>>)

----------------------------------------------------------------------------
(* Node.getSize: the recursion ends with a stack overflow on a cyclic tree *)

RECURSIVE SizeOf(_, _, _)
SizeOf(h, n, fuel) ==
    IF isFile(h, n) THEN h[n].size
    ELSE IF fuel = 0 THEN -1
    ELSE LET RECURSIVE Sum(_)
             Sum(i) ==
                 IF i > Len(h[n].children) THEN 0
                 ELSE LET x == SizeOf(h, h[n].children[i], fuel - 1)
                          rest == Sum(i + 1)
                      IN  IF x < 0 \/ rest < 0 THEN -1 ELSE x + rest
         IN  Sum(1)

getSize(h, n) == SizeOf(h, n, Cardinality(DOMAIN h))

----------------------------------------------------------------------------
(* GDrive.stat *)

stat(c0, path) ==
    LET c == autoConnect(c0)
        what == "Failed to get file stats"
    IN  IF Failed(c) THEN Unconnected(c)
        ELSE
          LET r == resolvePath(c, path)
          IN  IF Failed(r.c) THEN Caught(r.c, what)
              ELSE IF getSize(r.c.heap, r.node) < 0
              THEN Caught(Throw(r.c, "StackOverflow", <<>>), what)
              ELSE [Out(r.c, r.node, <<>>, r.c.heap[r.node].id, <<>>)
                       EXCEPT !.size = getSize(r.c.heap, r.node)]

----------------------------------------------------------------------------
(* GDrive.readdir *)

\* res.data.files.map(file => { new Node(file); node.addChild(childNode) })
RECURSIVE MapFiles(_, _, _, _, _)
MapFiles(h, n, files, r, kids) ==
    IF files = <<>> THEN [heap |-> h, kids |-> kids]
    ELSE LET ref == FreeRef(h)
             h1 == Place(h, ref, NodeOf(Entry(Head(files), r)))
         IN  MapFiles(addChild(h1, n, ref), n, Tail(files), r, Append(kids, ref))

\* if (!node.isDirectory()) throw new Error('Not a directory')
NotListable(h, n) == ~isDirectory(h, n)

\* C14 mutant: the mapped array is not assigned, the old children stay
SetChildrenKept(h, n, kids) == h

\* node.children = <the mapped array>
SetChildren(h, n, kids) ==
    [h EXCEPT ![n].children = kids, ![n].hasChildren = TRUE]

readdir(c0, path) ==
    LET c == autoConnect(c0)
        what == "Failed to read directory"
    IN  IF Failed(c) THEN Unconnected(c)
        ELSE
          LET r == resolvePath(c, path)
          IN  IF Failed(r.c) THEN Caught(r.c, what)
              ELSE IF NotListable(r.c.heap, r.node)
              THEN Caught(Throw(r.c, "NotADirectory", <<"Not a directory">>), what)
              ELSE IF NextFails(r.c) THEN Caught(RemoteError(r.c, "list"), what)
              ELSE
                LET c1 == Issue(r.c, "list")
                    files == ListAll(c1.remote, c1.heap[r.node].id, c1.ord)
                IN  IF Len(files) > Cardinality(Refs \ DOMAIN c1.heap)
                    THEN Caught(OutOfRefs(c1), what)
                    ELSE
                      LET m == MapFiles(c1.heap, r.node, files, c1.remote, <<>>)
                          h2 == SetChildren(m.heap, r.node, m.kids)
                      IN  Out([c1 EXCEPT !.heap = h2], r.node, m.kids,
                              c1.heap[r.node].id, <<>>)

----------------------------------------------------------------------------
(* GDrive.mkdir *)

\* files.create / files.copy is refused: the parent is gone or is no folder
CreateRefused(c, pid) ==
    \/ NextFails(c)
    \/ pid \notin DOMAIN c.remote
    \/ ~c.remote[pid].dir

\* the store has no id left to give (the action is then disabled)
OutOfIds(c) == c.nextId > MaxIds

mkdir(c0, path) ==
    LET c == autoConnect(c0)
        what == "Failed to create directory"
    IN  IF Failed(c) THEN Unconnected(c)
        ELSE
          LET parentPath == ParentPath(path)
              folderName == LeafName(path)
              r == resolvePath(c, parentPath)
          IN  IF Failed(r.c) THEN Caught(r.c, what)
              ELSE
                LET pid == r.c.heap[r.node].id
                IN  IF CreateRefused(r.c, pid) THEN Caught(RemoteError(r.c, "create"), what)
                    ELSE IF OutOfIds(r.c) \/ ~HasRoom(r.c.heap)
                    THEN Caught(OutOfRefs(r.c), what)
                    ELSE
                      LET id == r.c.nextId
                          c1 == [Issue(r.c, "create") EXCEPT
                                    !.remote = RemoteCreate(@, id, folderName, TRUE, pid, 0),
                                    !.nextId = id + 1]
                          ref == FreeRef(c1.heap)
                          h1 == Place(c1.heap, ref, NewNode(id, folderName, TRUE, 0))
                          c2 == [c1 EXCEPT !.heap = addChild(h1, r.node, ref)]
                      IN  Out(c2, ref, <<ref>>, id, <<>>)

----------------------------------------------------------------------------
(* GDrive.writeFile, GDrive.#findFileInFolder *)

\* files.update with a media body is refused: the entry is gone or is a folder
UpdateRefused(c, id) ==
    \/ NextFails(c)
    \/ id \notin DOMAIN c.remote
    \/ c.remote[id].dir

\* parentNode.children[index] = updatedNode, where index is that of the
\* first child with the id (nothing when the array is absent or has none)
ReplaceChild(h, n, id, ref) ==
    IF ~h[n].hasChildren THEN h
    ELSE LET index == IndexOfId(h, n, id)
         IN  IF index = 0 THEN h ELSE [h EXCEPT ![n].children[index] = ref]

writeFile(c0, path, size) ==
    LET c == autoConnect(c0)
        what == "Failed to write file"
    IN  IF Failed(c) THEN Unconnected(c)
        ELSE
          LET parentPath == ParentPath(path)
              fileName == LeafName(path)
              r == resolvePath(c, parentPath)
          IN  IF Failed(r.c) THEN Caught(r.c, what)
              ELSE IF NextFails(r.c)
              THEN Out(RemoteError(r.c, "probe"), Null, <<>>, NoId,
                       <<what, "Failed to search for file">>)
              ELSE
                LET c1 == Issue(r.c, "probe")
                    pid == c1.heap[r.node].id
                    found == ListByName(c1.remote, pid, fileName, c1.ord)
                IN  IF found # <<>>
                    THEN
                      LET id == found[1]
                      IN  IF UpdateRefused(c1, id)
                          THEN Caught(RemoteError(c1, "update"), what)
                          ELSE IF ~HasRoom(c1.heap) THEN Caught(OutOfRefs(c1), what)
                          ELSE
                            LET c2 == [Issue(c1, "update") EXCEPT
                                          !.remote[id].name = fileName,
                                          !.remote[id].size = size]
                                ref == FreeRef(c2.heap)
                                h1 == Place(c2.heap, ref, NodeOf(Entry(id, c2.remote)))
                                h2 == ReplaceChild(h1, r.node, id, ref)
                            IN  Out([c2 EXCEPT !.heap = h2], ref, <<ref>>, id, <<>>)
                    ELSE
                      IF CreateRefused(c1, pid)
                      THEN Caught(RemoteError(c1, "create"), what)
                      ELSE IF OutOfIds(c1) \/ ~HasRoom(c1.heap)
                      THEN Caught(OutOfRefs(c1), what)
                      ELSE
                        LET id == c1.nextId
                            c2 == [Issue(c1, "create") EXCEPT
                                      !.remote = RemoteCreate(@, id, fileName, FALSE, pid, size),
                                      !.nextId = id + 1]
                            ref == FreeRef(c2.heap)
                            h1 == Place(c2.heap, ref, NewNode(id, fileName, FALSE, size))
                        IN  Out([c2 EXCEPT !.heap = addChild(h1, r.node, ref)],
                                ref, <<ref>>, id, <<>>)

----------------------------------------------------------------------------
(* GDrive.readFile *)

readFile(c0, path) ==
    LET c == autoConnect(c0)
        what == "Failed to read file"
    IN  IF Failed(c) THEN Unconnected(c)
        ELSE
          LET r == resolvePath(c, path)
          IN  IF Failed(r.c) THEN Caught(r.c, what)
              ELSE IF isDirectory(r.c.heap, r.node)
              THEN Caught(Throw(r.c, "IsADirectory", <<>>), what)
              ELSE IF NextFails(r.c) \/ r.c.heap[r.node].id \notin DOMAIN r.c.remote
              THEN Caught(RemoteError(r.c, "media"), what)
              ELSE [Out(Issue(r.c, "media"), r.node, <<>>, r.c.heap[r.node].id, <<>>)
                       EXCEPT !.size = r.c.remote[r.c.heap[r.node].id].size]

----------------------------------------------------------------------------
(* GDrive.unlink *)

unlink(c0, path) ==
    LET c == autoConnect(c0)
        what == "Failed to delete file/directory"
    IN  IF Failed(c) THEN Unconnected(c)
        ELSE
          LET r == resolvePath(c, path)
          IN  IF Failed(r.c) THEN Caught(r.c, what)
              ELSE
                LET node == r.c.heap[r.node]
                IN  IF NextFails(r.c) \/ node.id \notin DOMAIN r.c.remote
                    THEN Caught(RemoteError(r.c, "delete"), what)
                    ELSE
                      LET c1 == [Issue(r.c, "delete") EXCEPT
                                    !.remote = RemoteDelete(@, node.id)]
                          h1 == IF node.parent # Null
                                THEN removeChild(c1.heap, node.parent, node.id)
                                ELSE c1.heap
                      IN  Out([c1 EXCEPT !.heap = h1], r.node, <<>>, node.id, <<>>)

----------------------------------------------------------------------------
(* GDrive.rename *)

\* files.update with addParents is refused: the entry or the new parent is
\* gone, or the new parent is no folder, or (in a store that keeps its
\* folders a tree) the new parent is the entry or lies below it
MoveRefused(c, id, pid) ==
    \/ NextFails(c)
    \/ id \notin DOMAIN c.remote
    \/ pid \notin DOMAIN c.remote
    \/ ~c.remote[pid].dir
    \/ (c.strict /\ pid \in Doomed(c.remote, {id}))

\* requestBody.name, addParents, removeParents (none when removed = NoId).
\* An entry of the store has one parent: adding a parent moves the entry,
\* whether or not removeParents names the folder it leaves.
RemoteMove(r, id, name, added, removed) ==
    [r EXCEPT ![id].name = name, ![id].parent = added]

rename(c0, oldPath, newPath) ==
    LET c == autoConnect(c0)
        what == "Failed to rename/move"
    IN  IF Failed(c) THEN Unconnected(c)
        ELSE
          LET r == resolvePath(c, oldPath)
          IN  IF Failed(r.c) THEN Caught(r.c, what)
              ELSE
                LET newParentPath == ParentPath(newPath)
                    newName == LeafName(newPath)
                    q == resolvePath(r.c, newParentPath)
                IN  IF Failed(q.c) THEN Caught(q.c, what)
                    ELSE
                      LET node == q.c.heap[r.node]
                          pid == q.c.heap[q.node].id
                      IN  IF MoveRefused(q.c, node.id, pid)
                          THEN Caught(RemoteError(q.c, "update"), what)
                          ELSE
                            LET removed == IF node.parent # Null
                                           THEN q.c.heap[node.parent].id ELSE NoId
                                c1 == [Issue(q.c, "update") EXCEPT
                                          !.remote = RemoteMove(@, node.id, newName, pid, removed)]
                                h1 == [c1.heap EXCEPT ![r.node].name = newName]
                                h2 == IF node.parent # Null
                                      THEN removeChild(h1, node.parent, node.id)
                                      ELSE h1
                                h3 == addChild(h2, q.node, r.node)
                            IN  Out([c1 EXCEPT !.heap = h3], r.node, <<r.node>>, node.id, <<>>)

----------------------------------------------------------------------------
(* GDrive.copy *)

\* files.copy is refused: the source is gone or is a folder, or the
\* destination is gone or is no folder
CopyRefused(c, id, pid) ==
    \/ CreateRefused(c, pid)
    \/ id \notin DOMAIN c.remote
    \/ c.remote[id].dir

copy(c0, sourcePath, destinationPath) ==
    LET c == autoConnect(c0)
        what == "Failed to copy file"
    IN  IF Failed(c) THEN Unconnected(c)
        ELSE
          LET r == resolvePath(c, sourcePath)
          IN  IF Failed(r.c) THEN Caught(r.c, what)
              ELSE
                LET destParentPath == ParentPath(destinationPath)
                    q == resolvePath(r.c, destParentPath)
                    newName == LeafName(destinationPath)
                IN  IF Failed(q.c) THEN Caught(q.c, what)
                    ELSE
                      LET sid == q.c.heap[r.node].id
                          pid == q.c.heap[q.node].id
                      IN  IF CopyRefused(q.c, sid, pid)
                          THEN Caught(RemoteError(q.c, "copy"), what)
                          ELSE IF OutOfIds(q.c) \/ ~HasRoom(q.c.heap)
                          THEN Caught(OutOfRefs(q.c), what)
                          ELSE
                            LET id == q.c.nextId
                                size == q.c.remote[sid].size
                                c1 == [Issue(q.c, "copy") EXCEPT
                                          !.remote = RemoteCreate(@, id, newName, FALSE, pid, size),
                                          !.nextId = id + 1]
                                ref == FreeRef(c1.heap)
                                h1 == Place(c1.heap, ref, NewNode(id, newName, FALSE, size))
                            IN  Out([c1 EXCEPT !.heap = addChild(h1, q.node, ref)],
                                    ref, <<ref>>, id, <<>>)

----------------------------------------------------------------------------
(* GDrive.search, with options.name alone ("" is no option) *)

\* name contains '<name>': the names of the model have one letter
SearchHits(r, pid, name, ord) ==
    SortIds({i \in DOMAIN r : r[i].parent = pid /\ (name = "" \/ r[i].name = name)}, ord)

\* res.data.files.map(file => new Node(file))
RECURSIVE FreshNodes(_, _, _, _)
FreshNodes(h, files, r, made) ==
    IF files = <<>> THEN [heap |-> h, made |-> made]
    ELSE LET ref == FreeRef(h)
         IN  FreshNodes(Place(h, ref, NodeOf(Entry(Head(files), r))), Tail(files), r,
                        Append(made, ref))

\* C17 mutant: the nodes made are attached to the folder searched
RECURSIVE MergedIn(_, _, _)
MergedIn(h, n, made) ==
    IF made = <<>> THEN h ELSE MergedIn(addChild(h, n, Head(made)), n, Tail(made))

\* the mapped nodes are returned as they are: no addChild on parentNode
KeptApart(h, n, made) == h

search(c0, name, path) ==
    LET c == autoConnect(c0)
        what == "Failed to search"
    IN  IF Failed(c) THEN Unconnected(c)
        ELSE
          LET r == resolvePath(c, path)
          IN  IF Failed(r.c) THEN Caught(r.c, what)
              ELSE IF NextFails(r.c) THEN Caught(RemoteError(r.c, "search"), what)
              ELSE
                LET c1 == Issue(r.c, "search")
                    pid == c1.heap[r.node].id
                    files == SearchHits(c1.remote, pid, name, c1.ord)
                IN  IF Len(files) > Cardinality(Refs \ DOMAIN c1.heap)
                    THEN Caught(OutOfRefs(c1), what)
                    ELSE LET m == FreshNodes(c1.heap, files, c1.remote, <<>>)
                         IN  Out([c1 EXCEPT !.heap = KeptApart(m.heap, r.node, m.made)],
                                 r.node, m.made, pid, <<>>)

----------------------------------------------------------------------------
(* Between two calls the heap holds the Node objects that #rootNode        *)
(* reaches, through children or parent; the rest is garbage. References    *)
(* are renumbered in the order a walk from the root meets the objects (a   *)
(* reference is an identity, not a value).                                 *)

Range(s) == {s[i] : i \in 1..Len(s)}

RECURSIVE Visit(_, _, _)
Visit(h, todo, done) ==
    IF todo = <<>> THEN done
    ELSE LET n == Head(todo)
         IN  IF n = Null \/ n \in Range(done) THEN Visit(h, Tail(todo), done)
             ELSE Visit(h, Tail(todo) \o h[n].children \o <<h[n].parent>>, Append(done, n))

IndexIn(s, x) == IF x = Null THEN Null ELSE CHOOSE i \in 1..Len(s) : s[i] = x

Collect(h, root) ==
    LET order == Visit(h, <<root>>, <<>>)
    IN  [heap |-> [i \in 1..Len(order) |->
                    [h[order[i]] EXCEPT
                        !.children = [k \in 1..Len(@) |-> IndexIn(order, @[k])],
                        !.parent = IndexIn(order, @)]],
         root |-> IndexIn(order, root)]

----------------------------------------------------------------------------
(* Actions: one call of the public API, from its first line to its return  *)
(* or throw.                                                               *)

\* the state a call leaves, whether it returned or threw
Commit(out) ==
    \E g \in {Collect(out.c.heap, out.c.rootNode)} :
        /\ out.c.err # "OutOfRefs"
        /\ \A n \in DOMAIN out.c.heap : Len(out.c.heap[n].children) <= MaxKids
        /\ heap' = g.heap
        /\ rootNode' = g.root
        /\ remote' = out.c.remote
        /\ nextId' = out.c.nextId
        /\ drive' = out.c.drive
        /\ lastConnect' = out.c.lastConnect
        /\ tasks = <<>>
        /\ UNCHANGED <<authOk, now, strict, tasks>>

\* which remote call of an API call is made to fail: the first, ..., or
\* (0) none, and then a call fails only where the store refuses
Fails == 0..MaxFail

\* a call made now, the store answering in the order ord and failing no
\* remote call
Now(ord) == Begin(0, ord)

Connect ==
    \E failAt \in Fails : \E c \in {connect(Begin(failAt, "asc"))} :
        Commit(IF Failed(c) THEN Unconnected(c)
               ELSE Out(c, c.rootNode, <<>>, RootId, <<>>))

Readdir ==
    \E path \in Paths, ord \in Orders, failAt \in Fails :
        Commit(readdir(Begin(failAt, ord), path))

Mkdir ==
    \E path \in Paths \cup SlashPaths, ord \in Orders, failAt \in Fails :
        Commit(mkdir(Begin(failAt, ord), path))

WriteFile ==
    \E path \in Paths, size \in Sizes, ord \in Orders, failAt \in Fails :
        Commit(writeFile(Begin(failAt, ord), path, size))

ReadFile ==
    \E path \in Paths, ord \in Orders, failAt \in Fails :
        Commit(readFile(Begin(failAt, ord), path))

Unlink ==
    \E path \in Paths, ord \in Orders, failAt \in Fails :
        Commit(unlink(Begin(failAt, ord), path))

Rename ==
    \E oldPath \in Paths, newPath \in Paths, ord \in Orders, failAt \in Fails :
        Commit(rename(Begin(failAt, ord), oldPath, newPath))

Stat ==
    \E path \in Paths \cup SlashPaths, ord \in Orders, failAt \in Fails :
        Commit(stat(Begin(failAt, ord), path))

Search ==
    \E name \in {""} \cup Names, path \in Paths, ord \in Orders, failAt \in Fails :
        Commit(search(Begin(failAt, ord), name, path))

Copy ==
    \E sourcePath \in Paths, destinationPath \in Paths, ord \in Orders, failAt \in Fails :
        Commit(copy(Begin(failAt, ord), sourcePath, destinationPath))

Fresh ==
    /\ remote = (RootId :> [name |-> "root", dir |-> TRUE, parent |-> NoId, size |-> 0])
    /\ nextId = 1
    /\ authOk \in BOOLEAN
    /\ drive = FALSE
    /\ rootNode = Null
    /\ lastConnect = NoTime
    /\ now = 0
    /\ heap = <<>>
    /\ tasks = <<>>

\* the store keeps its folders a tree
Init == Fresh /\ strict = TRUE

Next ==
    \/ Connect
    \/ Readdir
    \/ Mkdir
    \/ WriteFile
    \/ ReadFile
    \/ Unlink
    \/ Rename
    \/ Stat
    \/ Search
    \/ Copy

Spec == Init /\ [][Next]_vars

\* A store that performs every move it is asked for, under the calls that
\* build folders, look at them, and move one to a place below itself.
InitLax == Fresh /\ strict = FALSE

\* s is a proper prefix of t
IsPrefix(s, t) == Len(s) < Len(t) /\ SubSeq(t, 1, Len(s)) = s

\* rename of the root, or of a folder to a path below itself
RenameBelow ==
    \E oldPath \in Paths, newPath \in PlainPaths, ord \in Orders :
        /\ oldPath = RootPath \/ IsPrefix(oldPath, newPath)
        /\ Commit(rename(Now(ord), oldPath, newPath))

NextLax ==
    \/ Connect
    \/ Readdir
    \/ Mkdir
    \/ RenameBelow
    \/ Stat

SpecLax == InitLax /\ [][NextLax]_vars

\* A store that holds, when the client is built, the folder /a with the
\* files x of 10 bytes and y of 20 bytes, under calls that resolve, write,
\* read and delete below /a; readdir is never called.
HeldPaths == {<<"", "a">>, <<"", "a", "x">>, <<"", "a", "y">>}

HeldSizes == {10, 20}

HeldStore ==
    (RootId :> [name |-> "root", dir |-> TRUE, parent |-> NoId, size |-> 0])
    @@ (1 :> [name |-> "a", dir |-> TRUE, parent |-> RootId, size |-> 0])
    @@ (2 :> [name |-> "x", dir |-> FALSE, parent |-> 1, size |-> 10])
    @@ (3 :> [name |-> "y", dir |-> FALSE, parent |-> 1, size |-> 20])

InitHeld ==
    /\ remote = HeldStore
    /\ nextId = 4
    /\ authOk = TRUE
    /\ drive = FALSE
    /\ rootNode = Null
    /\ lastConnect = NoTime
    /\ now = 0
    /\ heap = <<>>
    /\ strict = TRUE
    /\ tasks = <<>>

StatHeld ==
    \E path \in HeldPaths \cup {RootPath}, ord \in Orders, failAt \in Fails :
        Commit(stat(Begin(failAt, ord), path))

WriteHeld ==
    \E path \in HeldPaths, size \in HeldSizes, ord \in Orders, failAt \in Fails :
        Commit(writeFile(Begin(failAt, ord), path, size))

ReadHeld ==
    \E path \in HeldPaths, ord \in Orders, failAt \in Fails :
        Commit(readFile(Begin(failAt, ord), path))

UnlinkHeld ==
    \E path \in HeldPaths, ord \in Orders, failAt \in Fails :
        Commit(unlink(Begin(failAt, ord), path))

NextHeld ==
    \/ Connect
    \/ StatHeld
    \/ WriteHeld
    \/ ReadHeld
    \/ UnlinkHeld

SpecHeld == InitHeld /\ [][NextHeld]_vars

\* The clock that `new Date()` reads moves on between calls: by the
\* threshold, or by one millisecond past a multiple of it.
MaxHours == 7

Tick ==
    \E d \in {1, CONNECTION_TIMEOUT} :
        /\ d = 1 => now % CONNECTION_TIMEOUT = 0
        /\ now + d <= MaxHours * 60 * 60 * 1000
        /\ now' = now + d
        /\ UNCHANGED <<remote, nextId, authOk, drive, rootNode, lastConnect, heap, strict,
                       tasks>>

NextClock ==
    \/ Connect
    \/ Tick
    \/ Mkdir
    \/ Stat

SpecClock == Init /\ [][NextClock]_vars

----------------------------------------------------------------------------
(* Calls that overlap. An async method runs until it awaits; the calls in  *)
(* progress take turns at their awaits. A remote call is sent by the step  *)
(* that reaches its await, performed by the store at some later moment,    *)
(* and its answer is handled when the call is resumed; the store performs  *)
(* the requests, and the calls are resumed, in any order.                  *)

MaxTasks == 2

\* the request a suspended call waits for
NoReq ==
    [kind |-> "", pid |-> NoId, name |-> "", id |-> NoId, removed |-> NoId,
     dir |-> FALSE, size |-> 0]

\* a call of op(a), op(a, size) or op(a, b) that has awaited autoConnect
Task(op, a, b, size) ==
    [op |-> op, a |-> a, b |-> b, size |-> size, stage |-> "begin",
     parts |-> <<>>, cur |-> Null, first |-> Null, second |-> Null,
     req |-> NoReq, sent |-> "no", ans |-> <<>>, ok |-> TRUE,
     out |-> Null, id |-> NoId, err |-> "", overlap |-> FALSE]

Over(t) == t.stage \in {"done", "failed"}

Fail(t, kind) == [t EXCEPT !.stage = "failed", !.err = kind, !.sent = "no"]

Send(t, stage, req) == [t EXCEPT !.stage = stage, !.req = req, !.sent = "sent"]

\* the for loop of #resolvePath as far as the cache answers it
RECURSIVE Advance(_, _, _)
Advance(h, cur, parts) ==
    IF parts = <<>> THEN [cur |-> cur, parts |-> parts, err |-> ""]
    ELSE IF ~isDirectory(h, cur)
    THEN [cur |-> cur, parts |-> parts, err |-> "NotADirectory"]
    ELSE LET childNode == FindByName(h, cur, Head(parts))
         IN  IF childNode # Null THEN Advance(h, childNode, Tail(parts))
             ELSE [cur |-> cur, parts |-> parts, err |-> ""]

\* #resolvePath from cur on: it returns, throws, or awaits files.list for
\* the first segment the cache does not answer
Proceed(t, h, cur, parts) ==
    LET a == Advance(h, cur, parts)
    IN  IF a.err # "" THEN Fail(t, a.err)
        ELSE IF a.parts = <<>>
        THEN IF t.stage = "walk1"
             THEN [t EXCEPT !.stage = "resolved1", !.first = a.cur, !.sent = "no"]
             ELSE [t EXCEPT !.stage = "resolved2", !.second = a.cur, !.sent = "no"]
        ELSE Send([t EXCEPT !.cur = a.cur, !.parts = a.parts], t.stage,
                  [NoReq EXCEPT !.kind = "query", !.pid = h[a.cur].id,
                                !.name = Head(a.parts)])

\* the entry of #resolvePath
Resolve(t, h, path, stage) ==
    IF rootNode = Null THEN Fail(t, "NotInitialized")
    ELSE IF path = RootPath
    THEN Proceed([t EXCEPT !.stage = stage], h, rootNode, <<>>)
    ELSE Proceed([t EXCEPT !.stage = stage], h, rootNode, Parts(path))

\* the step of a call from the await it is resumed at to the next one
Resumed(t, h) ==
    IF t.stage = "begin"
    THEN [t |-> Resolve(t, h, IF t.op = "rename" THEN t.a ELSE ParentPath(t.a), "walk1"),
          heap |-> h]
    ELSE IF t.stage \in {"walk1", "walk2"}
    THEN IF t.ans = <<>> THEN [t |-> Fail(t, "PathNotFound"), heap |-> h]
         ELSE LET ref == FreeRef(h)
                  h1 == Place(h, ref, NodeOf(t.ans[1]))
                  h2 == CacheMiss(h1, t.cur, ref)
              IN  [t |-> Proceed([t EXCEPT !.ans = <<>>], h2, ref, Tail(t.parts)),
                   heap |-> h2]
    ELSE IF t.stage = "resolved1"
    THEN IF t.op = "mkdir"
         THEN [t |-> Send(t, "mutate",
                          [NoReq EXCEPT !.kind = "create", !.pid = h[t.first].id,
                                        !.name = LeafName(t.a), !.dir = TRUE]),
               heap |-> h]
         ELSE IF t.op = "writeFile"
         THEN [t |-> Send(t, "probe",
                          [NoReq EXCEPT !.kind = "probe", !.pid = h[t.first].id,
                                        !.name = LeafName(t.a)]),
               heap |-> h]
         ELSE [t |-> Resolve(t, h, ParentPath(t.b), "walk2"), heap |-> h]
    ELSE IF t.stage = "resolved2"
    THEN [t |-> Send(t, "mutate",
                     [NoReq EXCEPT !.kind = "move", !.id = h[t.first].id,
                                   !.name = LeafName(t.b), !.pid = h[t.second].id,
                                   !.removed = IF h[t.first].parent # Null
                                               THEN h[h[t.first].parent].id
                                               ELSE NoId]),
          heap |-> h]
    ELSE IF t.stage = "probe"
    THEN IF ~t.ok THEN [t |-> Fail(t, "RemoteFailure"), heap |-> h]
         ELSE IF t.ans # <<>>
         THEN [t |-> Send([t EXCEPT !.ans = <<>>], "mutate",
                          [NoReq EXCEPT !.kind = "update", !.id = t.ans[1].id,
                                        !.name = LeafName(t.a), !.size = t.size]),
               heap |-> h]
         ELSE [t |-> Send(t, "mutate",
                          [NoReq EXCEPT !.kind = "create", !.pid = h[t.first].id,
                                        !.name = LeafName(t.a), !.size = t.size]),
               heap |-> h]
    ELSE IF ~t.ok THEN [t |-> Fail(t, "RemoteFailure"), heap |-> h]
    ELSE IF t.req.kind = "create"
    THEN LET ref == FreeRef(h)
             h1 == Place(h, ref, NodeOf(t.ans[1]))
         IN  [t |-> [t EXCEPT !.stage = "done", !.sent = "no", !.out = ref,
                              !.id = t.ans[1].id],
              heap |-> addChild(h1, t.first, ref)]
    ELSE IF t.req.kind = "update"
    THEN LET ref == FreeRef(h)
             h1 == Place(h, ref, NodeOf(t.ans[1]))
         IN  [t |-> [t EXCEPT !.stage = "done", !.sent = "no", !.out = ref,
                              !.id = t.ans[1].id],
              heap |-> ReplaceChild(h1, t.first, t.req.id, ref)]
    ELSE LET h1 == [h EXCEPT ![t.first].name = t.req.name]
             h2 == IF h1[t.first].parent # Null
                   THEN removeChild(h1, h1[t.first].parent, h1[t.first].id)
                   ELSE h1
         IN  [t |-> [t EXCEPT !.stage = "done", !.sent = "no", !.out = t.first,
                              !.id = h[t.first].id],
              heap |-> addChild(h2, t.second, t.first)]

\* the step the call is resumed for builds a Node
Builds(t) ==
    \/ t.stage \in {"walk1", "walk2"} /\ t.ans # <<>>
    \/ t.stage = "mutate" /\ t.ok /\ t.req.kind \in {"create", "update"}

\* the store performs the request of a call: what it holds afterwards, and
\* what it answers
Performed(t, ord) ==
    LET q == t.req
        c == Begin(0, ord)
        Answer(r, n, ans, ok) == [remote |-> r, nextId |-> n, ans |-> ans, ok |-> ok]
    IN  IF q.kind \in {"query", "probe"}
        THEN LET ids == ListByName(remote, q.pid, q.name, ord)
             IN  Answer(remote, nextId,
                        [i \in 1..Len(ids) |-> Entry(ids[i], remote)], TRUE)
        ELSE IF q.kind = "create"
        THEN IF CreateRefused(c, q.pid) THEN Answer(remote, nextId, <<>>, FALSE)
             ELSE LET r == RemoteCreate(remote, nextId, q.name, q.dir, q.pid, q.size)
                  IN  Answer(r, nextId + 1, <<Entry(nextId, r)>>, TRUE)
        ELSE IF q.kind = "update"
        THEN IF UpdateRefused(c, q.id) THEN Answer(remote, nextId, <<>>, FALSE)
             ELSE LET r == [remote EXCEPT ![q.id].name = q.name, ![q.id].size = q.size]
                  IN  Answer(r, nextId, <<Entry(q.id, r)>>, TRUE)
        ELSE IF MoveRefused(c, q.id, q.pid) THEN Answer(remote, nextId, <<>>, FALSE)
             ELSE Answer(RemoteMove(remote, q.id, q.name, q.pid, q.removed), nextId,
                         <<>>, TRUE)

\* A store that holds the folders /a and /b and the file /f
RaceStore ==
    (RootId :> [name |-> "root", dir |-> TRUE, parent |-> NoId, size |-> 0])
    @@ (1 :> [name |-> "a", dir |-> TRUE, parent |-> RootId, size |-> 0])
    @@ (2 :> [name |-> "b", dir |-> TRUE, parent |-> RootId, size |-> 0])
    @@ (3 :> [name |-> "f", dir |-> FALSE, parent |-> RootId, size |-> 10])

InitRace ==
    /\ remote = RaceStore
    /\ nextId = 4
    /\ authOk = TRUE
    /\ drive = FALSE
    /\ rootNode = Null
    /\ lastConnect = NoTime
    /\ now = 0
    /\ heap = <<>>
    /\ strict = TRUE
    /\ tasks = <<>>

\* the calls that are made while another may be in progress
RaceCalls ==
    {Task("mkdir", <<"", "a", "x">>, <<>>, 0),
     Task("mkdir", <<"", "a", "y">>, <<>>, 0),
     Task("writeFile", <<"", "a", "x">>, <<>>, 10),
     Task("rename", <<"", "f">>, <<"", "a", "f">>, 0),
     Task("rename", <<"", "f">>, <<"", "b", "f">>, 0)}

\* stat of a path, no other call being in progress
Warm ==
    \E path \in {<<"", "a">>, <<"", "f">>}, ord \in Orders :
        Commit(stat(Now(ord), path))

\* a call is made on a connected client whose session has not expired: its
\* autoConnect returns at once
Launch ==
    \E t \in RaceCalls :
        /\ Len(tasks) < MaxTasks
        /\ drive
        /\ ~(lastConnect # NoTime /\ now - lastConnect > CONNECTION_TIMEOUT)
        /\ LET busy == \E i \in 1..Len(tasks) : ~Over(tasks[i])
           IN  tasks' = Append([i \in 1..Len(tasks) |->
                                   IF Over(tasks[i]) THEN tasks[i]
                                   ELSE [tasks[i] EXCEPT !.overlap = TRUE]],
                               [t EXCEPT !.overlap = busy])
        /\ UNCHANGED <<remote, nextId, authOk, drive, rootNode, lastConnect, now, heap,
                       strict>>

\* the store performs the request of a suspended call
Perform ==
    \E i \in 1..Len(tasks), ord \in Orders :
        /\ tasks[i].sent = "sent"
        /\ LET p == Performed(tasks[i], ord)
           IN  /\ remote' = p.remote
               /\ nextId' = p.nextId
               /\ tasks' = [tasks EXCEPT ![i].sent = "applied", ![i].ans = p.ans,
                                         ![i].ok = p.ok]
        /\ UNCHANGED <<authOk, drive, rootNode, lastConnect, now, heap, strict>>

\* a suspended call whose await has settled runs to its next await
Resume ==
    \E i \in 1..Len(tasks) :
        /\ ~Over(tasks[i])
        /\ tasks[i].sent \in {"no", "applied"}
        /\ Builds(tasks[i]) => HasRoom(heap)
        /\ LET s == Resumed(tasks[i], heap)
           IN  /\ heap' = s.heap
               /\ tasks' = [tasks EXCEPT ![i] = s.t]
        /\ UNCHANGED <<remote, nextId, authOk, drive, rootNode, lastConnect, now, strict>>

NextRace ==
    \/ Connect
    \/ Warm
    \/ Launch
    \/ Perform
    \/ Resume

SpecRace == InitRace /\ [][NextRace]_vars

----------------------------------------------------------------------------
(* The mirror tree as a graph *)

\* the folders whose child array holds n
Holders(h, n) == {f \in DOMAIN h : n \in Range(h[f].children)}

\* the places, over all child arrays, that hold n
Places(h, n) ==
    {<<f, i>> \in (DOMAIN h) \X (1..MaxNodes) :
        i <= Len(h[f].children) /\ h[f].children[i] = n}

\* the nodes a walk down the child arrays from the nodes of S meets
RECURSIVE Descend(_, _)
Descend(h, S) ==
    LET T == S \cup UNION {Range(h[n].children) : n \in S}
    IN  IF T = S THEN S ELSE Descend(h, T)

Tree == IF rootNode = Null THEN {} ELSE Descend(heap, {rootNode})

\* the nodes met on the way up from n
RECURSIVE Above(_, _, _)
Above(h, n, fuel) ==
    IF h[n].parent = Null \/ fuel = 0 THEN {}
    ELSE {h[n].parent} \cup Above(h, h[n].parent, fuel - 1)

OnCycle(h, n) == n \in Above(h, n, Cardinality(DOMAIN h))

\* the entries of the folder with id pid that bear the name
Namesakes(r, pid, name) == {i \in DOMAIN r : r[i].parent = pid /\ r[i].name = name}

\* the next call, made in the state the call with outcome out has left
Then(out, ord) == [out.c EXCEPT !.calls = <<>>, !.ord = ord]

AllPaths == Paths \cup SlashPaths

----------------------------------------------------------------------------
(* Claims *)

\* C1 (as stated, while the root folder itself is in the store): every node
\* the child arrays reach from the root denotes an entry of the store that
\* exists, has the node's name and kind, and has the folder holding the node
\* as its parent.
C1_MirrorAgrees ==
    RootId \in DOMAIN remote =>
    \A f \in Tree : \A n \in Range(heap[f].children) :
        /\ heap[n].id \in DOMAIN remote
        /\ remote[heap[n].id].name = heap[n].name
        /\ remote[heap[n].id].dir = heap[n].dir
        /\ remote[heap[n].id].parent = heap[f].id

\* C2: a path that resolves, resolves again to the same Node object without
\* one remote call.
C2_ResolveAgain ==
    \A path \in AllPaths, ord \in Orders, ord2 \in Orders :
        LET r == resolvePath(Now(ord), path)
        IN  ~Failed(r.c) =>
                LET again == resolvePath(Then(r, ord2), path)
                IN  /\ ~Failed(again.c)
                    /\ again.c.calls = <<>>
                    /\ again.node = r.node

\* C2: a path of two segments resolves by two queries of the store, and
\* then again by none
C2_Witness ==
    \E path \in AllPaths :
        LET r == resolvePath(Now("asc"), path)
        IN  /\ ~Failed(r.c)
            /\ r.c.calls = <<"query", "query">>
            /\ resolvePath(Then(r, "asc"), path).c.calls = <<>>

\* C3 (as stated, for p other than "/" and in the case where the parent
\* caches no other node of the new folder's name): after mkdir(p) succeeds,
\* p resolves, without a remote call, to a node with the id the store gave
\* the new folder.
C3_MkdirThenResolve ==
    \A path \in AllPaths \ {RootPath}, ord \in Orders, ord2 \in Orders :
        LET out == mkdir(Now(ord), path)
            h == out.c.heap
        IN  (/\ ~Failed(out.c)
             /\ \A n \in DOMAIN h :
                   (h[n].parent = h[out.node].parent /\ h[n].name = h[out.node].name)
                      => n = out.node) =>
                LET r == resolvePath(Then(out, ord2), path)
                IN  /\ ~Failed(r.c)
                    /\ r.c.calls = <<>>
                    /\ r.c.heap[r.node].id = out.id

\* the folder a's parent path resolves to holds no entry of a's name
OldFolderClear(c, path) ==
    LET rp == resolvePath(c, ParentPath(path))
    IN  Failed(rp.c) \/ Namesakes(c.remote, rp.c.heap[rp.node].id, LeafName(path)) = {}

\* C4 (as stated, for a other than b, b other than "/", and names that are
\* the only ones of their kind in their folders): after rename(a, b)
\* succeeds, b resolves to a node with the id a had, and a does not resolve:
\* PathNotFound.
C4_RenameMoves ==
    \A a \in Paths, b \in Paths \ {RootPath}, ord \in Orders, ord2 \in Orders :
        LET out == rename(Now(ord), a, b)
            h == out.c.heap
        IN  (/\ ~Failed(out.c)
             /\ a # b
             /\ FindByName(h, h[out.node].parent, LeafName(b)) = out.node) =>
                LET rb == resolvePath(Then(out, ord2), b)
                    ra == resolvePath(Then(out, ord2), a)
                IN  /\ ~Failed(rb.c)
                    /\ rb.c.heap[rb.node].id = out.id
                    /\ OldFolderClear(Then(out, ord2), a) => ra.c.err = "PathNotFound"

\* C5 (as stated): after unlink(p) succeeds, the node p resolved to is in no
\* child array.
C5_UnlinkedIsGone ==
    \A path \in Paths, ord \in Orders :
        LET out == unlink(Now(ord), path)
        IN  ~Failed(out.c) => Holders(out.c.heap, out.node) = {}

\* C6: after unlink(p) succeeds, p being the one entry of its name in its
\* folder, readdir of p's parent path succeeds and returns no node of that
\* name.
C6_UnlinkThenReaddir ==
    \A path \in Paths \ {RootPath}, ord \in Orders, ord2 \in Orders :
        LET out == unlink(Now(ord), path)
        IN  ~Failed(out.c) =>
                LET rd == readdir(Then(out, ord2), ParentPath(path))
                IN  /\ rd.c.err \in {"", "OutOfRefs"}
                    /\ (/\ ~Failed(rd.c)
                        /\ Namesakes(rd.c.remote, rd.id, LeafName(path)) \subseteq {out.id})
                          => \A k \in Range(rd.ret) : rd.c.heap[k].name # LeafName(path)

\* C6: a file is unlinked whose node the parent's child array still holds
\* afterwards, and a readdir of the parent returns the entries left
C6_Witness ==
    \E path \in Paths \ {RootPath} :
        LET out == unlink(Now("asc"), path)
            rd == readdir(Then(out, "asc"), ParentPath(path))
        IN  /\ ~Failed(out.c)
            /\ Holders(out.c.heap, out.node) # {}
            /\ ~Failed(rd.c)
            /\ rd.ret # <<>>

\* C7 (as stated): a node is in at most one child array, at most once.
C7_OnePlace ==
    \A n \in DOMAIN heap : Cardinality(Places(heap, n)) <= 1

NoneNewlyPopulated(out) ==
    ~Failed(out.c) =>
        \A n \in DOMAIN heap :
            (out.c.heap[n].dir /\ out.c.heap[n].hasChildren) => heap[n].hasChildren

\* C9 (as stated): a folder comes to have a child array by a listing of the
\* folder alone: not by a resolution that misses, nor by mkdir, writeFile
\* or copy attaching a single child.
C9_PopulatedByListing ==
    \A path \in Paths, ord \in Orders :
        /\ NoneNewlyPopulated(stat(Now(ord), path))
        /\ NoneNewlyPopulated(mkdir(Now(ord), path))
        /\ \A size \in Sizes : NoneNewlyPopulated(writeFile(Now(ord), path, size))
        /\ \A to \in Paths : NoneNewlyPopulated(copy(Now(ord), path, to))

\* C10: a File node has no child array, readdir of a File node throws and
\* leaves it so, and addChild on a File node changes nothing.
C10_FilesAreLeaves ==
    /\ \A n \in DOMAIN heap :
          isFile(heap, n) =>
              /\ ~heap[n].hasChildren
              /\ heap[n].children = <<>>
              /\ \A child \in DOMAIN heap : addChild(heap, n, child) = heap
    /\ \A path \in Paths, ord \in Orders :
          LET out == readdir(Now(ord), path)
          IN  \A n \in DOMAIN out.c.heap :
                  isFile(out.c.heap, n) => ~out.c.heap[n].hasChildren

\* C10: a File node is in the tree, and readdir of its path throws
C10_Witness ==
    /\ \E n \in Tree : isFile(heap, n)
    /\ \E path \in Paths : readdir(Now("asc"), path).c.err = "NotADirectory"

\* the number of leading segments of parts that a walk down from n finds by
\* name in the child arrays
RECURSIVE CachedDepth(_, _, _)
CachedDepth(h, n, parts) ==
    IF parts = <<>> \/ ~h[n].dir THEN 0
    ELSE LET hits == {i \in 1..Len(h[n].children) :
                          h[h[n].children[i]].name = Head(parts)}
         IN  IF hits = {} THEN 0
             ELSE 1 + CachedDepth(h, h[n].children[CHOOSE i \in hits :
                                          \A j \in hits : i <= j], Tail(parts))

\* C11: resolving a path issues name-filtered queries only, none for a
\* segment found in the cached children and one for every other segment it
\* reaches; a query without results ends the walk with PathNotFound as the
\* last remote call; every node built after a miss is in the child array of
\* the folder it was queried in, which is its parent.
C11_QueryPerMiss ==
    rootNode # Null =>
    \A path \in AllPaths \ {RootPath}, ord \in Orders :
        LET r == resolvePath(Now(ord), path)
            parts == Parts(path)
            misses == Len(parts) - CachedDepth(heap, rootNode, parts)
            fetched == DOMAIN r.c.heap \ DOMAIN heap
            calls == r.c.calls
        IN  r.c.err # "OutOfRefs" =>
              /\ \A i \in 1..Len(calls) : calls[i] = "query"
              /\ \A n \in fetched :
                    /\ r.c.heap[n].parent # Null
                    /\ n \in Range(r.c.heap[r.c.heap[n].parent].children)
              /\ r.c.err \in {"", "PathNotFound", "NotADirectory"}
              /\ r.c.err = "" =>
                    Len(calls) = misses /\ Cardinality(fetched) = misses
              /\ r.c.err = "PathNotFound" =>
                    /\ Len(calls) \in 1..misses
                    /\ Cardinality(fetched) = Len(calls) - 1
              /\ r.c.err = "NotADirectory" =>
                    /\ Len(calls) < misses
                    /\ Cardinality(fetched) = Len(calls)

\* C11: a path of two segments whose first is cached and whose second is
\* not resolves by one query, and the node fetched hangs below the first
C11_Witness ==
    /\ rootNode # Null
    /\ \E path \in AllPaths :
        LET r == resolvePath(Now("asc"), path)
        IN  /\ ~Failed(r.c)
            /\ Len(Parts(path)) = 2
            /\ CachedDepth(heap, rootNode, Parts(path)) = 1
            /\ r.c.calls = <<"query">>
            /\ r.c.heap[r.node].parent = FindByName(heap, rootNode, Parts(path)[1])

\* the path of the folder in which segment j of parts is looked up
ContainerPath(parts, j) ==
    IF j = 1 THEN RootPath ELSE <<"">> \o SubSeq(parts, 1, j - 1)

\* C12 (as stated): when a walk ends because a segment has no entry in the
\* store, the PathNotFound error carries the path of the folder in which
\* that segment was looked up.
C12_NamesContainer ==
    rootNode # Null =>
    \A path \in AllPaths \ {RootPath}, ord \in Orders :
        LET r == resolvePath(Now(ord), path)
            parts == Parts(path)
            missing == CachedDepth(heap, rootNode, parts) + Len(r.c.calls)
        IN  r.c.err = "PathNotFound" =>
                r.c.errArg = ContainerPath(parts, missing)

\* C13: when the walk along a path reaches a node of a file and a segment
\* is left, the resolution fails with NotADirectory, having issued the
\* remote calls that led to the file and none after them.
C13_FileEndsWalk ==
    rootNode # Null =>
    \A path \in AllPaths, ord \in Orders :
        LET upTo == resolvePath(Now(ord), ParentPath(path))
            r == resolvePath(Now(ord), path)
        IN  /\ Len(Parts(path)) = 2
            /\ ~Failed(upTo.c)
            /\ ~upTo.c.heap[upTo.node].dir
            => /\ r.c.err = "NotADirectory"
               /\ r.node = Null
               /\ r.c.calls = upTo.c.calls
               /\ r.c.heap = upTo.c.heap

\* C13: a path of two segments whose first is a file not yet cached: one
\* query fetches the file, and the walk ends there
C13_Witness ==
    /\ rootNode # Null
    /\ \E path \in AllPaths :
        LET upTo == resolvePath(Now("asc"), ParentPath(path))
            r == resolvePath(Now("asc"), path)
        IN  /\ Len(Parts(path)) = 2
            /\ ~Failed(upTo.c)
            /\ ~upTo.c.heap[upTo.node].dir
            /\ r.c.err = "NotADirectory"
            /\ r.c.calls = <<"query">>

\* how often tag occurs in calls
Count(calls, tag) == Cardinality({i \in 1..Len(calls) : calls[i] = tag})

\* C14: a readdir of a folder that succeeds has issued one listing call,
\* its last remote call, whatever the folder had cached; afterwards the
\* folder's child array holds, in the order of the listing, one new Node per
\* listed entry with the folder as parent, and no node it held before.
C14_ReaddirReplaces ==
    \A path \in AllPaths, ord \in Orders :
        LET out == readdir(Now(ord), path)
            h == out.c.heap
            kids == h[out.node].children
            files == ListAll(remote, out.id, ord)
        IN  ~Failed(out.c) =>
              /\ Count(out.c.calls, "list") = 1
              /\ Last(out.c.calls) = "list"
              /\ out.ret = kids
              /\ Len(kids) = Len(files)
              /\ \A i \in 1..Len(kids) :
                    /\ h[kids[i]].id = files[i]
                    /\ h[kids[i]].name = remote[files[i]].name
                    /\ h[kids[i]].parent = out.node
                    /\ kids[i] \notin DOMAIN heap
              /\ \A i, j \in 1..Len(kids) : kids[i] = kids[j] => i = j

\* C14: a folder that caches a node of an entry the store no longer lists,
\* and is read: the listing has an entry and the stale node is gone
C14_Witness ==
    \E path \in AllPaths :
        LET before == resolvePath(Now("asc"), path)
            out == readdir(Now("asc"), path)
        IN  /\ ~Failed(out.c)
            /\ ~Failed(before.c)
            /\ before.c.calls = <<>>
            /\ \E n \in Range(heap[before.node].children) :
                   heap[n].id \notin Range(ListAll(remote, out.id, "asc"))
            /\ Len(out.ret) >= 1

\* after the call with outcome out: the folder of path has one entry of the
\* path's name in the store, the one with the id, and the folder's node
\* holds one node with that id in its child array
OneEntryOneNode(out, path, id) ==
    LET pr == resolvePath(Then(out, "asc"), ParentPath(path))
        h == pr.c.heap
        kids == h[pr.node].children
    IN  /\ ~Failed(pr.c)
        /\ Namesakes(out.c.remote, h[pr.node].id, LeafName(path)) = {id}
        /\ Cardinality({i \in 1..Len(kids) : h[kids[i]].id = id}) = 1

\* the entries of the name of path in the folder the path's parent path
\* resolves to, seen from the state the call starts in
Siblings(path) ==
    LET pr == resolvePath(Now("asc"), ParentPath(path))
    IN  IF Failed(pr.c) THEN {}
        ELSE Namesakes(remote, pr.c.heap[pr.node].id, LeafName(path))

\* C15 (as stated, for a folder with at most one entry of the name): after
\* one writeFile(p) that succeeds, and after a second one, the parent folder
\* has exactly one entry of the name in the store and exactly one node for
\* it in its child array; the second call keeps the id.
C15_WriteUpserts ==
    \A path \in PlainPaths, size \in Sizes, ord \in Orders :
        LET out == writeFile(Now(ord), path, size)
            again == writeFile(Then(out, ord), path, size)
        IN  Cardinality(Siblings(path)) <= 1 /\ ~Failed(out.c) =>
              /\ OneEntryOneNode(out, path, out.id)
              /\ ~Failed(again.c) =>
                    again.id = out.id /\ OneEntryOneNode(again, path, out.id)

\* the store holds under the folder /a the files x of 10 bytes and y of 20
\* bytes and nothing else
HoldsXY ==
    /\ 1 \in DOMAIN remote /\ remote[1].name = "a" /\ remote[1].parent = RootId
    /\ {i \in DOMAIN remote : remote[i].parent = 1} = {2, 3}
    /\ remote[2].name = "x" /\ remote[2].size = 10
    /\ remote[3].name = "y" /\ remote[3].size = 20

\* C16 (as stated; under SpecHeld no folder is ever listed): while /a holds
\* x of 10 bytes and y of 20 bytes and has never been listed, stat('/a')
\* does not report the size 30.
C16_TotalNeedsListing ==
    \A ord \in Orders :
        LET out == stat(Now(ord), <<"", "a">>)
        IN  HoldsXY /\ ~Failed(out.c) => out.size # 30

\* C17: a search that succeeds returns new Node objects that have no parent
\* and are in no child array, and leaves every node of the tree, the
\* folder searched and its child array among them, as resolving the path
\* had left it.
C17_SearchApart ==
    \A name \in {""} \cup Names, path \in AllPaths, ord \in Orders :
        LET r == resolvePath(autoConnect(Now(ord)), path)
            out == search(Now(ord), name, path)
            h == out.c.heap
        IN  ~Failed(out.c) =>
              /\ out.node = r.node
              /\ \A n \in DOMAIN r.c.heap : h[n] = r.c.heap[n]
              /\ h[out.node].children = r.c.heap[r.node].children
              /\ \A i \in 1..Len(out.ret) :
                    /\ out.ret[i] \notin DOMAIN r.c.heap
                    /\ h[out.ret[i]].parent = Null
                    /\ Holders(h, out.ret[i]) = {}

\* C17: a search in a folder that caches a child returns a node
C17_Witness ==
    \E name \in Names, path \in AllPaths :
        LET out == search(Now("asc"), name, path)
        IN  /\ ~Failed(out.c)
            /\ Len(out.ret) >= 1
            /\ rootNode # Null
            /\ Len(out.c.heap[out.node].children) >= 1

\* the outcomes of the calls of the nine operations that can be made now
Outcomes(ord) ==
    {readdir(Now(ord), p) : p \in AllPaths}
    \cup {mkdir(Now(ord), p) : p \in AllPaths}
    \cup {writeFile(Now(ord), p, 10) : p \in Paths}
    \cup {readFile(Now(ord), p) : p \in Paths}
    \cup {unlink(Now(ord), p) : p \in Paths}
    \cup {rename(Now(ord), p[1], p[2]) : p \in Paths \X Paths}
    \cup {stat(Now(ord), p) : p \in AllPaths}
    \cup {search(Now(ord), n, p) : <<n, p>> \in ({""} \cup Names) \X Paths}
    \cup {copy(Now(ord), p[1], p[2]) : p \in Paths \X Paths}

\* C18: when the client is not connected, or more than the threshold has
\* passed since the last connect, a call of any operation first connects
\* (it is refused for its credentials, or its first remote call is the
\* fetch of the root and the time of the last connect is now); otherwise it
\* fetches no root and leaves the connection, its time and the root node
\* as they are.
C18_ReconnectWhenDue ==
    \A ord \in Orders : \A out \in Outcomes(ord) :
        IF ~drive \/ (lastConnect # NoTime /\ now - lastConnect > CONNECTION_TIMEOUT)
        THEN \/ out.c.err = "InvalidCredentials" /\ out.c.calls = <<>>
             \/ /\ out.c.calls # <<>>
                /\ Head(out.c.calls) = "get"
                /\ Count(out.c.calls, "get") = 1
                /\ out.c.drive
                /\ out.c.lastConnect = now
        ELSE /\ Count(out.c.calls, "get") = 0
             /\ out.c.err # "InvalidCredentials"
             /\ out.c.lastConnect = lastConnect
             /\ out.c.rootNode = rootNode
             /\ out.c.drive

\* C18: one millisecond after the threshold has passed a stat fetches the
\* root again
C18_Witness ==
    /\ drive
    /\ lastConnect # NoTime
    /\ now - lastConnect = CONNECTION_TIMEOUT + 1
    /\ stat(Now("asc"), RootPath).c.calls = <<"get">>

\* the calls of the nine operations that can be made now, the remote call
\* with the number failAt failing, each with the words its catch block puts
\* before the cause
Attempts(failAt, ord) ==
    LET c == Begin(failAt, ord)
    IN  {<<"Failed to read directory", readdir(c, p)>> : p \in AllPaths}
        \cup {<<"Failed to create directory", mkdir(c, p)>> : p \in AllPaths}
        \cup {<<"Failed to write file", writeFile(c, p, 10)>> : p \in Paths}
        \cup {<<"Failed to read file", readFile(c, p)>> : p \in Paths}
        \cup {<<"Failed to delete file/directory", unlink(c, p)>> : p \in Paths}
        \cup {<<"Failed to rename/move", rename(c, p[1], p[2])>> : p \in Paths \X Paths}
        \cup {<<"Failed to get file stats", stat(c, p)>> : p \in AllPaths}
        \cup {<<"Failed to search", search(c, n, p)>> :
                 <<n, p>> \in ({""} \cup Names) \X Paths}
        \cup {<<"Failed to copy file", copy(c, p[1], p[2])>> : p \in Paths \X Paths}

\* C19 (as stated): a call of an operation that fails surfaces an error
\* wrapped once, in the words of that operation, and a remote call that
\* fails is the call's last.
C19_WrappedOnce ==
    \A failAt \in Fails, ord \in Orders : \A a \in Attempts(failAt, ord) :
        LET what == a[1]
            out == a[2]
        IN  Failed(out.c) /\ out.c.err # "OutOfRefs" =>
              /\ out.wraps = <<what>>
              /\ failAt \in 1..Len(out.c.calls) => Len(out.c.calls) = failAt

\* the remote calls among calls that change the store
Mutations(calls) ==
    Cardinality({i \in 1..Len(calls) : calls[i] \in {"create", "update", "delete", "copy"}})

\* a failure of #resolvePath
Unresolved(out) == out.c.err \in {"NotInitialized", "NotADirectory", "PathNotFound"}

\* the calls of mkdir, unlink, rename and copy that can be made now
Changes(ord) ==
    {mkdir(Now(ord), p) : p \in AllPaths}
    \cup {unlink(Now(ord), p) : p \in Paths}
    \cup {rename(Now(ord), p[1], p[2]) : p \in Paths \X Paths}
    \cup {copy(Now(ord), p[1], p[2]) : p \in Paths \X Paths}

\* C20: a call of mkdir, unlink, rename or copy that succeeds has issued
\* one call that changes the store, its last remote call, and one that
\* fails in resolving a path has issued none; a writeFile that succeeds has
\* issued one probe and, right after it and last, one create or update, and
\* one that fails in resolving its parent path has issued neither.
C20_OneMutation ==
    \A ord \in Orders :
        /\ \A out \in Changes(ord) :
              /\ ~Failed(out.c) =>
                    /\ Mutations(out.c.calls) = 1
                    /\ Mutations(<<Last(out.c.calls)>>) = 1
              /\ Unresolved(out) => Mutations(out.c.calls) = 0
        /\ \A path \in Paths, size \in Sizes :
              LET out == writeFile(Now(ord), path, size)
                  calls == out.c.calls
              IN  /\ ~Failed(out.c) =>
                        /\ Mutations(calls) = 1
                        /\ Count(calls, "probe") = 1
                        /\ calls[Len(calls) - 1] = "probe"
                        /\ Last(calls) \in {"create", "update"}
                  /\ Unresolved(out) =>
                        Mutations(calls) = 0 /\ Count(calls, "probe") = 0

\* C20: in one state a rename that succeeds after two queries and one
\* update, and a writeFile that updates after its probe
C20_Witness ==
    /\ \E p \in Paths \X Paths :
          LET out == rename(Now("asc"), p[1], p[2])
          IN  ~Failed(out.c) /\ Mutations(out.c.calls) = 1 /\ Len(out.c.calls) >= 2
    /\ \E path \in Paths, size \in Sizes :
          LET out == writeFile(Now("asc"), path, size)
          IN  /\ ~Failed(out.c)
              /\ SubSeq(out.c.calls, Len(out.c.calls) - 1, Len(out.c.calls))
                     = <<"probe", "update">>
    /\ \E path \in Paths : Unresolved(unlink(Now("asc"), path)) /\ drive

C23_ParentAgrees ==
    \A f \in Tree : \A n \in Range(heap[f].children) : heap[n].parent = f

\* C24 (as stated): the child array of a folder of the tree holds no two
\* entries with the same id.
C24_NoTwinIds ==
    \A f \in Tree : \A i, j \in 1..Len(heap[f].children) :
        heap[heap[f].children[i]].id = heap[heap[f].children[j]].id => i = j

\* C25 (as stated): for every node of the tree whose name none of its
\* siblings bears, and for the root, resolving the path getPath gives for
\* the node returns the node.
C25_GetPathResolves ==
    \A n \in Tree :
        (\A f \in Holders(heap, n) : \A m \in Range(heap[f].children) :
             heap[m].name = heap[n].name => m = n) =>
        \A ord \in Orders :
            LET r == resolvePath(Now(ord), getPath(heap, n))
            IN  ~Failed(r.c) /\ r.node = n

\* the calls of the five operations that change the store, the remote call
\* with the number failAt failing, each with the context that the
\* resolution of its paths alone leaves
Tries(failAt, ord) ==
    LET c == autoConnect(Begin(failAt, ord))
    IN  {<<mkdir(Begin(failAt, ord), p), resolvePath(c, ParentPath(p)).c>> : p \in AllPaths}
        \cup {<<writeFile(Begin(failAt, ord), p, 10), resolvePath(c, ParentPath(p)).c>> :
                 p \in Paths}
        \cup {<<unlink(Begin(failAt, ord), p), resolvePath(c, p).c>> : p \in Paths}
        \cup {<<rename(Begin(failAt, ord), p[1], p[2]),
                resolvePath(resolvePath(c, p[1]).c, ParentPath(p[2])).c>> :
                 p \in Paths \X Paths}
        \cup {<<copy(Begin(failAt, ord), p[1], p[2]),
                resolvePath(resolvePath(c, p[1]).c, ParentPath(p[2])).c>> :
                 p \in Paths \X Paths}

\* C26: when the create, update, delete or copy call of mkdir, writeFile,
\* unlink, rename or copy fails, every Node object, the root and the store
\* are as the resolution of the call's paths had left them.
C26_FailedMutationKeepsTree ==
    \A failAt \in Fails, ord \in Orders : \A t \in Tries(failAt, ord) :
        LET out == t[1]
            resolved == t[2]
        IN  (/\ out.c.err = "RemoteFailure"
             /\ Mutations(<<Last(out.c.calls)>>) = 1) =>
              /\ out.c.heap = resolved.heap
              /\ out.c.rootNode = resolved.rootNode
              /\ out.c.remote = remote
              /\ Mutations(out.c.calls) = 1

\* C26: the update call of a rename fails after a query has fetched a node,
\* which stays cached
C26_Witness ==
    \E p \in Paths \X Paths :
        LET out == rename(Begin(2, "asc"), p[1], p[2])
        IN  /\ rootNode # Null
            /\ heap[rootNode].children # <<>>
            /\ out.c.err = "RemoteFailure"
            /\ out.c.calls = <<"query", "update">>
            /\ DOMAIN out.c.heap # DOMAIN heap

\* C27 (as stated): while the client reports connected the root node is
\* set, and no call of an operation fails for a root that is not
\* initialised.
C27_ConnectedHasRoot ==
    drive =>
        /\ rootNode # Null
        /\ \A ord \in Orders : \A out \in Outcomes(ord) :
               out.c.err # "NotInitialized"

\* the context c resolves every non-root path from its root by one query
\* per segment: the queries of a walk that succeeds are as many as the
\* path has segments, and a walk that fails has queried its first segment
QueriesAll(c, ord) ==
    \A path \in AllPaths \ {RootPath} :
        LET r == resolvePath([c EXCEPT !.calls = <<>>, !.ord = ord], path)
        IN  /\ r.c.err # "OutOfRefs" => Len(r.c.calls) >= 1
            /\ ~Failed(r.c) => r.c.calls = [i \in 1..Len(Parts(path)) |-> "query"]

\* C28: a connect that succeeds, called as such or by an operation whose
\* reconnect is due, leaves a root node that is a new object with the
\* configured id, no child array and no node below it; the paths below the
\* root then resolve by one query per segment. An operation whose reconnect
\* is due and that succeeds has worked on such a root.
C28_ConnectStartsAnew ==
    \A ord \in Orders :
        /\ LET c == connect(Now(ord))
           IN  ~Failed(c) =>
                 /\ c.rootNode \notin DOMAIN heap
                 /\ c.heap[c.rootNode].id = RootId
                 /\ ~c.heap[c.rootNode].hasChildren
                 /\ c.heap[c.rootNode].children = <<>>
                 /\ c.heap[c.rootNode].parent = Null
                 /\ Holders(c.heap, c.rootNode) = {}
                 /\ QueriesAll(c, ord)
        /\ (~drive \/ (lastConnect # NoTime /\ now - lastConnect > CONNECTION_TIMEOUT)) =>
              \A path \in AllPaths \ {RootPath} :
                  LET out == stat(Now(ord), path)
                  IN  ~Failed(out.c) =>
                        /\ out.c.rootNode \notin DOMAIN heap
                        /\ out.c.calls =
                              <<"get">> \o [i \in 1..Len(Parts(path)) |-> "query"]
                        /\ Descend(out.c.heap, {out.c.rootNode}) \cap DOMAIN heap = {}

\* C28: the session has expired on a client that caches a path of two
\* segments, and a stat of the path fetches the root and both segments
C28_Witness ==
    /\ drive /\ rootNode # Null
    /\ now - lastConnect > CONNECTION_TIMEOUT
    /\ \E path \in AllPaths :
          /\ Len(Parts(path)) = 2
          /\ resolvePath(Begin(0, "asc"), path).c.calls = <<>>
          /\ ~Failed(resolvePath(Begin(0, "asc"), path).c)
          /\ stat(Now("asc"), path).c.calls = <<"get", "query", "query">>

\* two calls of op were in progress at the same time and both have returned
BothDone(op) ==
    /\ Len(tasks) = 2
    /\ \A i \in 1..2 : tasks[i].op = op /\ tasks[i].stage = "done" /\ tasks[i].overlap

\* the places in the child arrays of the tree that hold a node with the id
PlacesOfId(id) ==
    {p \in Tree \X (1..MaxNodes) :
        /\ p[2] <= Len(heap[p[1]].children)
        /\ heap[heap[p[1]].children[p[2]]].id = id}

\* C21 (as stated): when two overlapping mkdir calls for two names under
\* one parent path have both returned, the tree holds one node of the
\* parent folder, and each of the two nodes created is held once, by that
\* node and by no other.
C21_BothAttached ==
    (BothDone("mkdir") /\ tasks[1].a # tasks[2].a
        /\ ParentPath(tasks[1].a) = ParentPath(tasks[2].a)) =>
      \E f \in Tree :
          /\ \A g \in Tree : heap[g].id = heap[f].id => g = f
          /\ \A i \in 1..2 :
                /\ heap[f].id = remote[tasks[i].id].parent
                /\ Holders(heap, tasks[i].out) = {f}
                /\ Cardinality(Places(heap, tasks[i].out)) = 1

\* C29 (as stated): when two overlapping writeFile calls to one path, at
\* which the store held no file, have both returned, the store holds one
\* entry of the name in the folder and the tree holds one node for it, in
\* one place.
C29_OneFileOneNode ==
    (BothDone("writeFile") /\ tasks[1].a = tasks[2].a) =>
      /\ tasks[1].id = tasks[2].id
      /\ Namesakes(remote, remote[tasks[1].id].parent, LeafName(tasks[1].a))
            = {tasks[1].id}
      /\ Cardinality(PlacesOfId(tasks[1].id)) = 1

\* C30 (as stated): when two overlapping rename calls of one path to two
\* folders have both returned, the tree holds a node of the entry in one
\* place, the node's parent is the folder that holds it, and that folder is
\* the entry's parent in the store.
C30_OneFolderHoldsIt ==
    (BothDone("rename") /\ tasks[1].a = tasks[2].a
        /\ ParentPath(tasks[1].b) # ParentPath(tasks[2].b)) =>
      /\ tasks[1].id = tasks[2].id
      /\ \E p \in PlacesOfId(tasks[1].id) :
            /\ PlacesOfId(tasks[1].id) = {p}
            /\ heap[heap[p[1]].children[p[2]]].parent = p[1]
            /\ heap[p[1]].id = remote[tasks[1].id].parent

====
